---- MODULE Spec2Model ----
(***************************************************************************)
(* Model of StreetViewScraper.py: the region-keyed geometry cache          *)
(* (load_shapefile_for_country), the point sampler (generate_ll), the      *)
(* metadata validator (MetaParse), the image fetcher (GetStreetLL) and the *)
(* acquisition driver (download_images_from_country).                      *)
(***************************************************************************)
EXTENDS Integers, Sequences, FiniteSets, Bags, TLC

VARIABLES
    \* ---- geometry cache (module level state, lines 20-38) ----
    gdf_cache,        \* dict region -> loaded GeoDataFrame (line 22)
    readCalls,        \* region -> number of read_dataframe invocations
    readOks,          \* region -> number of read_dataframe calls that returned
    lastResolve,      \* what the last load_shapefile_for_country call did
    nCalls,           \* number of resolve calls made so far
    \* ---- one GetStreetLL call ----
    fetchIn,          \* the arguments and the provider's answers of the call
    fetchOut,         \* what the call returned and did
    \* ---- one MetaParse call ----
    metaIn,
    metaOut,
    \* ---- one generate_ll call ----
    sampleIn,         \* the frame, the budget and the draw of gdf.sample
    sampleOut,        \* the rows used and the points returned
    \* ---- one download_images_from_country call ----
    call,             \* its arguments and the pool size (num_workers)
    dpc,              \* where the driver is
    gdf,              \* the GeoDataFrame of line 205
    images_downloaded,
    data_list,        \* the points of the current round (line 211)
    futures,          \* one future per point of the round (lines 219-222)
    image_list,       \* the metadata ledger (line 20), as the bag of its
                      \* entries: the order of the list is not modelled
    files,            \* the files in save_dir
    hist              \* what has happened so far in the call

cacheVars == <<gdf_cache, readCalls, readOks, lastResolve, nCalls>>
fetchVars == <<fetchIn, fetchOut>>
metaVars  == <<metaIn, metaOut>>
sampleVars == <<sampleIn, sampleOut>>
driverVars == <<call, dpc, gdf, images_downloaded, data_list, futures,
                image_list, files, hist>>
vars == <<gdf_cache, readCalls, readOks, lastResolve, nCalls,
          fetchIn, fetchOut, metaIn, metaOut, sampleIn, sampleOut,
          call, dpc, gdf, images_downloaded, data_list, futures,
          image_list, files, hist>>

None == "None"

\* Values of the call variables while no call is modelled.
NoFetchIn  == [Lat |-> 0, Lon |-> 0, Head |-> 0, resps |-> << >>]
NoFetchOut == [done |-> FALSE]
NoMetaIn   == [transport |-> "idle", json |-> << >>]
NoMetaOut  == [done |-> FALSE]
NoSampleIn == [g |-> << >>, n2d |-> 0, pick |-> << >>]
NoSampleOut == [done |-> FALSE]
NoCall     == [country |-> "None", total_images_to_download |-> 0,
               num_workers |-> 0]
NoHist     == [round |-> "none", exhausted |-> FALSE, allOk |-> TRUE,
               n2d |-> 0, dispatched |-> {}, processed |-> 0,
               okProcessed |-> 0, appended |-> 0]

SampleIdle == sampleIn = NoSampleIn /\ sampleOut = NoSampleOut

DriverIdle ==
    /\ call = NoCall /\ dpc = "idle" /\ gdf = << >>
    /\ images_downloaded = 0 /\ data_list = << >> /\ futures = << >>
    /\ image_list = EmptyBag /\ files = {} /\ hist = NoHist

(***************************************************************************)
(* Bounds of the model.                                                    *)
(***************************************************************************)
MaxCalls == 4       \* resolve calls explored in one process
MaxRead  == 3       \* cap of the read_dataframe counters

(***************************************************************************)
(* Road geometries.  A road is a geometry with a type and component lines; *)
(* a line is a sequence of vertices <<x, y>> (x = longitude, y = latitude).*)
(***************************************************************************)
Road1 == [geom_type |-> "LineString",
          geoms |-> << << <<11, 21>>, <<12, 22>> >> >>]
Road2 == [geom_type |-> "MultiLineString",
          geoms |-> << << <<13, 23>>, <<14, 24>> >>, << <<15, 25>>, <<16, 26>> >> >>]
Road3 == [geom_type |-> "Point",
          geoms |-> << << <<17, 27>> >> >>]
Road4 == [geom_type |-> "LineString",
          geoms |-> << << <<18, 28>>, <<11, 21>> >> >>]

(***************************************************************************)
(* regions_to_countries.json and the shapefile table.                      *)
(***************************************************************************)
RegionOrder == <<"Region 1", "Region 2", "Region 3", "Region 4", "Region 9">>
Regions == {RegionOrder[i] : i \in 1..Len(RegionOrder)}

regions_to_countries_dict ==
    [r \in Regions |->
        CASE r = "Region 1" -> {"France", "Spain"}
          [] r = "Region 2" -> {"Nauru"}
          [] r = "Region 3" -> {"Chile"}
          [] r = "Region 4" -> {"Tuvalu"}
          [] OTHER          -> {"Atlantis"}]

Countries == {"France", "Spain", "Nauru", "Chile", "Tuvalu", "Atlantis", "Narnia"}

\* region_shp_paths: "Region 9" of the JSON file has no shapefile path.
region_shp_paths ==
    [r \in Regions |-> IF r = "Region 9" THEN None ELSE r]

\* The rows of the shapefile behind each path (the GeoDataFrame a successful
\* read_dataframe returns).
ShapefileRows(path) ==
    CASE path = "Region 1" -> <<Road1, Road2, Road3>>
      [] path = "Region 2" -> << >>
      [] path = "Region 3" -> <<Road3>>
      [] path = "Region 4" -> <<Road4>>
      [] OTHER             -> << >>

(***************************************************************************)
(* load_shapefile_for_country(country).  readOk is whether read_dataframe  *)
(* returns (TRUE) or raises (FALSE) should the call reach it.  The result  *)
(* records the value returned or the exception raised, the cache after the *)
(* call, and the region read_dataframe was invoked for (None if not).      *)
(***************************************************************************)
BadLookup(country, cache, readOk, region) ==
    \* a cache keyed by country instead of region
    IF country \in DOMAIN cache
    THEN [kind |-> "return", value |-> cache[country], cache |-> cache,
          read |-> None, readOk |-> FALSE, err |-> None]
    ELSE LET path == region_shp_paths[region] IN
         IF path # None
         THEN IF readOk
              THEN LET frame == ShapefileRows(path) IN
                   [kind |-> "return", value |-> frame,
                    cache |-> [k \in DOMAIN cache \cup {country} |->
                                  IF k = country THEN frame ELSE cache[k]],
                    read |-> region, readOk |-> TRUE, err |-> None]
              ELSE [kind |-> "raise", value |-> None, cache |-> cache,
                    read |-> region, readOk |-> FALSE,
                    err |-> "GeometrySourceUnavailable"]
         ELSE [kind |-> "raise", value |-> None, cache |-> cache,
               read |-> None, readOk |-> FALSE,
               err |-> "GeometrySourceUnavailable"]

EagerLookup(country, cache, readOk, region) ==
    \* the cache entry is made before read_dataframe has returned
    IF region \in DOMAIN cache
    THEN [kind |-> "return", value |-> cache[region], cache |-> cache,
          read |-> None, readOk |-> FALSE, err |-> None]
    ELSE LET path == region_shp_paths[region]
             frame  == ShapefileRows(path)
             c2   == [k \in DOMAIN cache \cup {region} |->
                         IF k = region THEN frame ELSE cache[k]] IN
         IF path # None
         THEN IF readOk
              THEN [kind |-> "return", value |-> frame, cache |-> c2,
                    read |-> region, readOk |-> TRUE, err |-> None]
              ELSE [kind |-> "raise", value |-> None, cache |-> c2,
                    read |-> region, readOk |-> FALSE,
                    err |-> "GeometrySourceUnavailable"]
         ELSE [kind |-> "raise", value |-> None, cache |-> cache,
               read |-> None, readOk |-> FALSE,
               err |-> "GeometrySourceUnavailable"]

\* Lines 57-70: the body run for the first region that lists the country.
RegionLookup(country, cache, readOk, region) ==
    IF region \in DOMAIN cache
    THEN [kind |-> "return", value |-> cache[region], cache |-> cache,
          read |-> None, readOk |-> FALSE, err |-> None]
    ELSE LET path == region_shp_paths[region] IN
         IF path # None
         THEN IF readOk
              THEN LET frame == ShapefileRows(path) IN
                   [kind |-> "return", value |-> frame,
                    cache |-> [k \in DOMAIN cache \cup {region} |->
                                  IF k = region THEN frame ELSE cache[k]],
                    read |-> region, readOk |-> TRUE, err |-> None]
              ELSE [kind |-> "raise", value |-> None, cache |-> cache,
                    read |-> region, readOk |-> FALSE,
                    err |-> "GeometrySourceUnavailable"]
         ELSE [kind |-> "raise", value |-> None, cache |-> cache,
               read |-> None, readOk |-> FALSE,
               err |-> "GeometrySourceUnavailable"]

RECURSIVE FindRegion(_, _)
\* Line 55-56: the index in RegionOrder of the first region listing the
\* country, 0 when no region does.
FindRegion(country, i) ==
    IF i > Len(RegionOrder) THEN 0
    ELSE IF country \in regions_to_countries_dict[RegionOrder[i]] THEN i
    ELSE FindRegion(country, i + 1)

load_shapefile_for_country(country, cache, readOk) ==
    LET i == FindRegion(country, 1) IN
    IF i = 0
    THEN [kind |-> "raise", value |-> None, cache |-> cache,
          read |-> None, readOk |-> FALSE, err |-> "UnknownCountry"]
    ELSE RegionLookup(country, cache, readOk, RegionOrder[i])

Bump(f, r) == [f EXCEPT ![r] = IF @ < MaxRead THEN @ + 1 ELSE @]

\* One call of load_shapefile_for_country by the menu layer.
Resolve(country, readOk) ==
    /\ nCalls < MaxCalls
    /\ LET res == load_shapefile_for_country(country, gdf_cache, readOk) IN
       /\ gdf_cache' = res.cache
       /\ readCalls' = IF res.read # None THEN Bump(readCalls, res.read)
                       ELSE readCalls
       /\ readOks' = IF res.read # None /\ res.readOk THEN Bump(readOks, res.read)
                     ELSE readOks
       /\ lastResolve' = [country |-> country, kind |-> res.kind,
                          value |-> res.value, err |-> res.err,
                          read |-> res.read,
                          before |-> DOMAIN gdf_cache]
    /\ nCalls' = nCalls + 1
    /\ UNCHANGED <<fetchVars, metaVars, sampleVars, driverVars>>

NoResolve == [country |-> None, kind |-> None, value |-> None, err |-> None,
              read |-> None, before |-> {}]

InitCache ==
    /\ gdf_cache = << >>
    /\ readCalls = [r \in Regions |-> 0]
    /\ readOks = [r \in Regions |-> 0]
    /\ lastResolve = NoResolve
    /\ nCalls = 0

InitCacheSpec ==
    /\ InitCache
    /\ fetchIn = NoFetchIn /\ fetchOut = NoFetchOut
    /\ metaIn = NoMetaIn /\ metaOut = NoMetaOut
    /\ DriverIdle
    /\ SampleIdle

NextCache == \E c \in Countries, ok \in BOOLEAN : Resolve(c, ok)

SpecCache == InitCacheSpec /\ [][NextCache]_vars

(***************************************************************************)
(* The imagery provider.  An answer to the metadata request is a transport *)
(* failure (urlopen raises), a body that is not JSON (json.loads raises),  *)
(* or a JSON object, modelled as a function from the keys it holds.        *)
(***************************************************************************)
Missing == "MISSING"          \* marks a key the JSON object does not hold
Statuses == {"OK", "ZERO_RESULTS"}
PanoIds == {"pano1", "", None}        \* a panorama id, an empty one, null
Locs == {[lat |-> 31, lng |-> 41], [lat |-> 32, lng |-> 42]}
Dates == {"2019-06"}

Doc(status, pano, hasLoc, loc, date) ==
    [k \in (IF status = Missing THEN {} ELSE {"status"})
           \cup (IF pano = Missing THEN {} ELSE {"pano_id"})
           \cup (IF hasLoc THEN {"location"} ELSE {})
           \cup (IF date = Missing THEN {} ELSE {"date"}) |->
        CASE k = "status"   -> status
          [] k = "pano_id"  -> pano
          [] k = "location" -> loc
          [] OTHER          -> date]

JsonDocs ==
    {Doc(s, p, hl, l, d) : s \in Statuses \cup {Missing},
                           p \in PanoIds \cup {Missing},
                           hl \in BOOLEAN, l \in Locs,
                           d \in Dates \cup {Missing}}

NoDoc == Doc(Missing, Missing, FALSE, [lat |-> 31, lng |-> 41], Missing)

MetaResps ==
    {[transport |-> "ok", json |-> j] : j \in JsonDocs}
      \cup {[transport |-> t, json |-> NoDoc] : t \in {"neterr", "malformed"}}

(***************************************************************************)
(* MetaParse(MetaUrl), lines 119-143.  A result says whether the call      *)
(* raised, whether it returned a tuple (some) or None, and the tuple.      *)
(***************************************************************************)
MetaNone   == [raised |-> FALSE, some |-> FALSE, value |-> << >>]
MetaRaised == [raised |-> TRUE, some |-> FALSE, value |-> << >>]

\* Lines 131-139: the body of the try block.
MetaParseTry(resp) ==
    IF resp.transport # "ok" THEN MetaRaised                 \* lines 131-133
    ELSE LET jsonData == resp.json IN
         IF "status" \notin DOMAIN jsonData THEN MetaRaised  \* KeyError, 136
         ELSE IF jsonData["status"] = "OK"
         THEN IF \/ "pano_id" \notin DOMAIN jsonData         \* KeyError, 137
                 \/ "location" \notin DOMAIN jsonData
              THEN MetaRaised
              ELSE [raised |-> FALSE, some |-> TRUE,
                    value |-> << IF "date" \in DOMAIN jsonData
                                 THEN jsonData["date"] ELSE None,
                                 jsonData["pano_id"],
                                 jsonData["location"].lat,
                                 jsonData["location"].lng >>]
         ELSE MetaNone

MetaParseNoExcept(resp) == MetaParseTry(resp)

MetaParseStatusBlind(resp) ==
    \* the status of the answer is not looked at
    IF resp.transport # "ok" THEN MetaNone
    ELSE LET jsonData == resp.json IN
         IF \/ "pano_id" \notin DOMAIN jsonData
            \/ "location" \notin DOMAIN jsonData
         THEN MetaNone
         ELSE [raised |-> FALSE, some |-> TRUE,
               value |-> << IF "date" \in DOMAIN jsonData
                            THEN jsonData["date"] ELSE None,
                            jsonData["pano_id"],
                            jsonData["location"].lat,
                            jsonData["location"].lng >>]

\* Lines 129-143: every Exception of the body is caught and None returned.
MetaParse(resp) ==
    LET r == MetaParseTry(resp) IN IF r.raised THEN MetaNone ELSE r

\* Python truth value of a panorama id (line 174).
Truthy(pano_id) == pano_id # "" /\ pano_id # None

(***************************************************************************)
(* GetStreetLL(Lat, Lon, Heading, SaveLoc, retries), lines 147-189.           *)
(* resps[i] is what the provider does in attempt i: its answer to the      *)
(* metadata request, and the outcome of urlretrieve should it be called:   *)
(*   "ok"    the image is written,                                          *)
(*   "http"  urllib.error.HTTPError is raised,                              *)
(*   "exc"   another Exception is raised before anything is written,        *)
(*   "short" the file is written and ContentTooShortError is raised.        *)
(***************************************************************************)
retries == 3
DlOutcomes == {"ok", "http", "exc", "short"}

Filename(lat, lon, Heading) == <<lat, lon, Heading, "jpg">>

FetchState0 == [metaQueries |-> 0, downloads |-> 0, sleeps |-> 0, files |-> {}]

FetchReturn(st, attempts, some, meta, flag) ==
    [done |-> TRUE, some |-> some, meta |-> meta, flag |-> flag,
     attempts |-> attempts, metaQueries |-> st.metaQueries,
     downloads |-> st.downloads, sleeps |-> st.sleeps, files |-> st.files]

RECURSIVE AttemptNoAbort(_, _, _, _, _, _)
AttemptNoAbort(attempt, Lat, Lon, Heading, resps, st) ==
    \* any exception of the download is retried like an HTTPError
    IF attempt > retries THEN FetchReturn(st, retries, FALSE, << >>, 0)
    ELSE
    LET met_data == MetaParse(resps[attempt].meta)
        st1 == [st EXCEPT !.metaQueries = @ + 1] IN
    IF met_data.raised THEN FetchReturn(st1, attempt, FALSE, << >>, 0)
    ELSE IF met_data.some /\ Truthy(met_data.value[2])
    THEN LET filename == Filename(met_data.value[3], met_data.value[4], Heading)
             st2 == [st1 EXCEPT !.downloads = @ + 1]
             dl  == resps[attempt].dl IN
         CASE dl = "ok" ->
                FetchReturn([st2 EXCEPT !.files = @ \cup {filename}], attempt, TRUE,
                            << met_data.value[1], met_data.value[2],
                               met_data.value[3], met_data.value[4], filename >>, 1)
           [] dl = "short" ->
                AttemptNoAbort(attempt + 1, Lat, Lon, Heading, resps,
                               [st2 EXCEPT !.files = @ \cup {filename}])
           [] OTHER ->
                AttemptNoAbort(attempt + 1, Lat, Lon, Heading, resps,
                               [st2 EXCEPT !.sleeps = @ + 1])
    ELSE AttemptNoAbort(attempt + 1, Lat, Lon, Heading, resps, st1)

RECURSIVE AttemptOneMore(_, _, _, _, _, _)
AttemptOneMore(attempt, Lat, Lon, Heading, resps, st) ==
    \* the loop runs once more than retries (the last answer is used again)
    IF attempt > retries + 1 THEN FetchReturn(st, retries + 1, FALSE, << >>, 0)
    ELSE
    LET resp == resps[IF attempt > retries THEN retries ELSE attempt]
        met_data == MetaParse(resp.meta)
        st1 == [st EXCEPT !.metaQueries = @ + 1] IN
    IF met_data.raised THEN FetchReturn(st1, attempt, FALSE, << >>, 0)
    ELSE IF met_data.some /\ Truthy(met_data.value[2])
    THEN LET filename == Filename(met_data.value[3], met_data.value[4], Heading)
             st2 == [st1 EXCEPT !.downloads = @ + 1]
             dl  == resp.dl IN
         CASE dl = "ok" ->
                FetchReturn([st2 EXCEPT !.files = @ \cup {filename}], attempt, TRUE,
                            << met_data.value[1], met_data.value[2],
                               met_data.value[3], met_data.value[4], filename >>, 1)
           [] dl = "http" ->
                AttemptOneMore(attempt + 1, Lat, Lon, Heading, resps,
                               [st2 EXCEPT !.sleeps = @ + 1])
           [] dl = "short" ->
                FetchReturn([st2 EXCEPT !.files = @ \cup {filename}], attempt,
                            FALSE, << >>, 0)
           [] OTHER -> FetchReturn(st2, attempt, FALSE, << >>, 0)
    ELSE AttemptOneMore(attempt + 1, Lat, Lon, Heading, resps, st1)

RECURSIVE AttemptRequestedLoc(_, _, _, _, _, _)
AttemptRequestedLoc(attempt, Lat, Lon, Heading, resps, st) ==
    \* the requested coordinates are used in place of the validated ones
    IF attempt > retries THEN FetchReturn(st, retries, FALSE, << >>, 0)
    ELSE
    LET met_data == MetaParse(resps[attempt].meta)
        st1 == [st EXCEPT !.metaQueries = @ + 1] IN
    IF met_data.raised THEN FetchReturn(st1, attempt, FALSE, << >>, 0)
    ELSE IF met_data.some /\ Truthy(met_data.value[2])
    THEN LET filename == Filename(Lat, Lon, Heading)
             st2 == [st1 EXCEPT !.downloads = @ + 1]
             dl  == resps[attempt].dl IN
         CASE dl = "ok" ->
                FetchReturn([st2 EXCEPT !.files = @ \cup {filename}], attempt, TRUE,
                            << met_data.value[1], met_data.value[2],
                               Lat, Lon, filename >>, 1)
           [] dl = "http" ->
                AttemptRequestedLoc(attempt + 1, Lat, Lon, Heading, resps,
                                    [st2 EXCEPT !.sleeps = @ + 1])
           [] dl = "short" ->
                FetchReturn([st2 EXCEPT !.files = @ \cup {filename}], attempt,
                            FALSE, << >>, 0)
           [] OTHER -> FetchReturn(st2, attempt, FALSE, << >>, 0)
    ELSE AttemptRequestedLoc(attempt + 1, Lat, Lon, Heading, resps, st1)

RECURSIVE AttemptHttpAborts(_, _, _, _, _, _)
AttemptHttpAborts(attempt, Lat, Lon, Heading, resps, st) ==
    \* an HTTPError of the download ends the call like any other exception
    IF attempt > retries THEN FetchReturn(st, retries, FALSE, << >>, 0)
    ELSE
    LET met_data == MetaParse(resps[attempt].meta)
        st1 == [st EXCEPT !.metaQueries = @ + 1] IN
    IF met_data.raised THEN FetchReturn(st1, attempt, FALSE, << >>, 0)
    ELSE IF met_data.some /\ Truthy(met_data.value[2])
    THEN LET filename == Filename(met_data.value[3], met_data.value[4], Heading)
             st2 == [st1 EXCEPT !.downloads = @ + 1]
             dl  == resps[attempt].dl IN
         CASE dl = "ok" ->
                FetchReturn([st2 EXCEPT !.files = @ \cup {filename}], attempt, TRUE,
                            << met_data.value[1], met_data.value[2],
                               met_data.value[3], met_data.value[4], filename >>, 1)
           [] dl = "short" ->
                FetchReturn([st2 EXCEPT !.files = @ \cup {filename}], attempt,
                            FALSE, << >>, 0)
           [] OTHER -> FetchReturn(st2, attempt, FALSE, << >>, 0)
    ELSE AttemptHttpAborts(attempt + 1, Lat, Lon, Heading, resps, st1)

RECURSIVE Attempt(_, _, _, _, _, _)
\* Lines 168-189: the loop from iteration `attempt` (1-based) on.
Attempt(attempt, Lat, Lon, Heading, resps, st) ==
    IF attempt > retries THEN FetchReturn(st, retries, FALSE, << >>, 0)  \* 189
    ELSE
    LET met_data == MetaParse(resps[attempt].meta)                      \* 171
        st1 == [st EXCEPT !.metaQueries = @ + 1] IN
    IF met_data.raised THEN FetchReturn(st1, attempt, FALSE, << >>, 0)  \* 183
    ELSE IF met_data.some /\ Truthy(met_data.value[2])                  \* 172-174
    THEN LET filename == Filename(met_data.value[3], met_data.value[4], Heading)
             st2 == [st1 EXCEPT !.downloads = @ + 1]
             dl  == resps[attempt].dl IN                                \* 177
         CASE dl = "ok" ->                                              \* 178
                FetchReturn([st2 EXCEPT !.files = @ \cup {filename}], attempt, TRUE,
                            << met_data.value[1], met_data.value[2],
                               met_data.value[3], met_data.value[4], filename >>, 1)
           [] dl = "http" ->                                            \* 179-182
                Attempt(attempt + 1, Lat, Lon, Heading, resps,
                        [st2 EXCEPT !.sleeps = @ + 1])
           [] dl = "short" ->                                           \* 183-186
                FetchReturn([st2 EXCEPT !.files = @ \cup {filename}], attempt,
                            FALSE, << >>, 0)
           [] OTHER -> FetchReturn(st2, attempt, FALSE, << >>, 0)       \* 183-186
    ELSE Attempt(attempt + 1, Lat, Lon, Heading, resps, st1)

GetStreetLL(Lat, Lon, Heading, resps) ==
    Attempt(1, Lat, Lon, Heading, resps, FetchState0)

(***************************************************************************)
(* SpecMeta: MetaParse applied to every answer of the provider.            *)
(* SpecFetch: GetStreetLL applied to a point and the provider's behaviour  *)
(* in each of the attempts.                                                *)
(***************************************************************************)
Headings == <<2, 92, 182, 272>>

\* The answers the fetch is explored with: one of each way MetaParse can go.
FetchMetaResps ==
    {[transport |-> "neterr", json |-> NoDoc],
     [transport |-> "ok", json |-> Doc("ZERO_RESULTS", Missing, FALSE, [lat |-> 31, lng |-> 41], Missing)],
     [transport |-> "ok", json |-> Doc("OK", "", TRUE, [lat |-> 31, lng |-> 41], Missing)],
     [transport |-> "ok", json |-> Doc("OK", "pano1", TRUE, [lat |-> 31, lng |-> 41], "2019-06")],
     [transport |-> "ok", json |-> Doc("OK", "pano1", TRUE, [lat |-> 32, lng |-> 42], Missing)]}

FetchResps == [meta : FetchMetaResps, dl : DlOutcomes]

InitMeta ==
    /\ InitCache
    /\ DriverIdle
    /\ SampleIdle
    /\ fetchIn = NoFetchIn /\ fetchOut = NoFetchOut
    /\ metaIn \in MetaResps
    /\ metaOut = NoMetaOut

CallMetaParse ==
    /\ ~metaOut.done
    /\ metaOut' = [done |-> TRUE, result |-> MetaParse(metaIn)]
    /\ UNCHANGED <<cacheVars, fetchVars, metaIn, sampleVars, driverVars>>

NextMeta == CallMetaParse

SpecMeta == InitMeta /\ [][NextMeta]_vars

InitFetch ==
    /\ InitCache
    /\ DriverIdle
    /\ SampleIdle
    /\ metaIn = NoMetaIn /\ metaOut = NoMetaOut
    /\ fetchIn \in [Lat : {21}, Lon : {11}, Head : {Headings[1], Headings[3]},
                    resps : [1..retries -> FetchResps]]
    /\ fetchOut = NoFetchOut

CallGetStreetLL ==
    /\ ~fetchOut.done
    /\ fetchOut' = GetStreetLL(fetchIn.Lat, fetchIn.Lon, fetchIn.Head, fetchIn.resps)
    /\ UNCHANGED <<cacheVars, metaVars, sampleVars, fetchIn, driverVars>>

NextFetch == CallGetStreetLL

SpecFetch == InitFetch /\ [][NextFetch]_vars

(***************************************************************************)
(* generate_ll(gdf, n2d), lines 75-116.  A sample point is                 *)
(* <<lat, lon, heading>>.  pick is the draw of gdf.sample: the row indices *)
(* of the sampled roads, in the order sample returns them.                 *)
(***************************************************************************)
\* Lines 95-114: the points of one road.
\* A variant of RoadPoints that reads the last vertex of the line.
RoadPointsLastVertex(road) ==
    IF road.geom_type \in {"LineString", "MultiLineString"}
    THEN LET line == road.geoms[1]
             lat == line[Len(line)][2]
             lon == line[Len(line)][1] IN
         [h \in 1..4 |-> <<lat, lon, Headings[h]>>]
    ELSE << >>

RoadPoints(road) ==
    IF road.geom_type = "LineString"
    THEN LET lat == road.geoms[1][1][2]
             lon == road.geoms[1][1][1] IN
         [h \in 1..4 |-> <<lat, lon, Headings[h]>>]
    ELSE IF road.geom_type = "MultiLineString"
    THEN LET first_line == road.geoms[1]
             lat == first_line[1][2]
             lon == first_line[1][1] IN
         [h \in 1..4 |-> <<lat, lon, Headings[h]>>]
    ELSE << >>

RECURSIVE PointsOf(_, _)
\* Line 94: the loop over the roads from row i on.
PointsOf(roads, i) ==
    IF i > Len(roads) THEN << >>
    ELSE RoadPoints(roads[i]) \o PointsOf(roads, i + 1)

\* The draws gdf.sample(n) can make: n distinct rows in any order.
Samples(g, n) ==
    {p \in [1..n -> 1..Len(g)] : \A i, j \in 1..n : i # j => p[i] # p[j]}

\* The draws open to generate_ll(g, n2d): none when the whole frame is used.
SampleDraws(g, n2d) ==
    IF Len(g) > n2d \div 2 THEN Samples(g, n2d \div 2) ELSE {<< >>}

generate_ll(g, n2d, pick) ==
    LET n_roads == n2d \div 2                                      \* line 87
        roads == IF Len(g) > n_roads                               \* line 91
                 THEN [i \in 1..n_roads |-> g[pick[i]]]
                 ELSE g IN
    PointsOf(roads, 1)

\* Line 91: the rows of the frame the loop of line 94 walks, in order.
sample_rows(g, n2d, pick) ==
    IF Len(g) > n2d \div 2 THEN pick ELSE [i \in 1..Len(g) |-> i]

(***************************************************************************)
(* One call generate_ll(gdf, n2d) on any frame and any budget.             *)
(***************************************************************************)
MaxRows   == 3      \* longest frame explored
MaxBudget == 6      \* largest n2d explored

RoadPool == {Road1, Road2, Road3, Road4}

\* The frames: up to MaxRows different rows in any order.
Frames ==
    UNION {{f \in [1..n -> RoadPool] : \A i, j \in 1..n : i # j => f[i] # f[j]}
           : n \in 0..MaxRows}

InitSample ==
    /\ InitCache
    /\ fetchIn = NoFetchIn /\ fetchOut = NoFetchOut
    /\ metaIn = NoMetaIn /\ metaOut = NoMetaOut
    /\ DriverIdle
    /\ \E g \in Frames, n2d \in 0..MaxBudget :
          \E pick \in SampleDraws(g, n2d) :
             sampleIn = [g |-> g, n2d |-> n2d, pick |-> pick]
    /\ sampleOut = NoSampleOut

CallGenerateLL ==
    /\ ~sampleOut.done
    /\ sampleOut' = [done   |-> TRUE,
                     rows   |-> sample_rows(sampleIn.g, sampleIn.n2d, sampleIn.pick),
                     points |-> generate_ll(sampleIn.g, sampleIn.n2d, sampleIn.pick)]
    /\ UNCHANGED <<cacheVars, fetchVars, metaVars, sampleIn, driverVars>>

NextSample == CallGenerateLL

SpecSample == InitSample /\ [][NextSample]_vars

(***************************************************************************)
(* download_images_from_country(country_name, total_images_to_download,    *)
(* save_dir), lines 192-238, with the pool of num_workers threads that run *)
(* GetStreetLL.                                                            *)
(***************************************************************************)
MaxTarget  == 2     \* largest total_images_to_download explored
MaxWorkers == 2     \* largest num_workers explored

\* The countries download_images_from_country is explored with (Spain
\* shares the region, and so the behaviour, of France).
DriverCountries == Countries \ {"Spain"}

\* What the provider does during one GetStreetLL call of a worker.  The
\* panorama nearest to a requested coordinate is a fixed one: Snap.
Snap(lat, lon) == [lat |-> lat + 10, lng |-> lon + 30]
OkAt(loc, dl) ==
    [meta |-> [transport |-> "ok", json |-> Doc("OK", "pano1", TRUE, loc, Missing)],
     dl |-> dl]
Down == [meta |-> [transport |-> "neterr", json |-> NoDoc], dl |-> "ok"]

\* The image is served at once; served after two HTTP errors; the metadata
\* endpoint is unreachable; the download raises a non-HTTP exception.
ProviderRuns(lat, lon) ==
    {[i \in 1..retries |-> OkAt(Snap(lat, lon), "ok")],
     [i \in 1..retries |-> IF i < retries THEN OkAt(Snap(lat, lon), "http")
                           ELSE OkAt(Snap(lat, lon), "ok")],
     [i \in 1..retries |-> Down],
     [i \in 1..retries |-> OkAt(Snap(lat, lon), "exc")]}

Future(state, some, meta, flag) ==
    [state |-> state, some |-> some, meta |-> meta, flag |-> flag]

\* The futures whose call has not returned, and those among them that a
\* thread of the pool is running: the pool takes the submitted calls in
\* order, so they are the first num_workers of them.
Pending == {i \in 1..Len(futures) : futures[i].state = "pending"}
Running ==
    {i \in Pending : Cardinality({j \in Pending : j < i}) < call.num_workers}

\* The round of the call: none yet, the first, or a later one.
NextRound(r) == IF r = "none" THEN "first" ELSE "later"

\* Line 205: the geometry of the country, or the exception of the loader.
AcquireResolve ==
    /\ dpc = "resolve"
    /\ \E readOk \in BOOLEAN :
         LET res == load_shapefile_for_country(call.country, gdf_cache, readOk) IN
         /\ gdf_cache' = res.cache
         /\ readCalls' = IF res.read # None THEN Bump(readCalls, res.read)
                         ELSE readCalls
         /\ readOks' = IF res.read # None /\ res.readOk THEN Bump(readOks, res.read)
                       ELSE readOks
         /\ lastResolve' = [country |-> call.country, kind |-> res.kind,
                            value |-> res.value, err |-> res.err,
                            read |-> res.read, before |-> DOMAIN gdf_cache]
         /\ IF res.kind = "return"
            THEN gdf' = res.value /\ dpc' = "round"
            ELSE gdf' = gdf /\ dpc' = "failed"
    /\ nCalls' = nCalls + 1
    /\ UNCHANGED <<fetchVars, metaVars, sampleVars, call, images_downloaded, data_list,
                   futures, image_list, files, hist>>

\* The elements of a sequence.
Range(f) == {f[i] : i \in DOMAIN f}

\* A variant of Round whose budget is the target less the tally.
RoundBudgetByTally ==
    /\ dpc = "round"
    /\ IF images_downloaded < call.total_images_to_download * 4
       THEN LET n2d == call.total_images_to_download - images_downloaded IN
            \E pick \in SampleDraws(gdf, n2d) :
              LET points == generate_ll(gdf, n2d, pick) IN
              /\ data_list' = points
              /\ hist' = [hist EXCEPT
                            !.round = NextRound(@),
                            !.exhausted = (points = << >>),
                            !.n2d = n2d,
                            !.dispatched = @ \cup Range(points),
                            !.processed = 0]
              /\ IF points = << >>
                 THEN futures' = << >> /\ dpc' = "done"
                 ELSE /\ futures' = [i \in 1..Len(points) |->
                                       Future("pending", FALSE, << >>, 0)]
                      /\ dpc' = "collect"
       ELSE /\ dpc' = "done"
            /\ UNCHANGED <<data_list, futures, hist>>
    /\ UNCHANGED <<cacheVars, fetchVars, metaVars, sampleVars, call, gdf, images_downloaded,
                   image_list, files>>

RoundNoBreak ==
    \* the test of lines 213-215 is left out
    /\ dpc = "round"
    /\ IF images_downloaded < call.total_images_to_download * 4
       THEN LET n2d == call.total_images_to_download - (images_downloaded \div 4) IN
            \E pick \in SampleDraws(gdf, n2d) :
              LET points == generate_ll(gdf, n2d, pick) IN
              /\ data_list' = points
              /\ hist' = [hist EXCEPT
                            !.round = NextRound(@),
                            !.n2d = n2d,
                            !.dispatched = @ \cup Range(points),
                            !.processed = 0]
              /\ futures' = [i \in 1..Len(points) |-> Future("pending", FALSE, << >>, 0)]
              /\ dpc' = "collect"
       ELSE /\ dpc' = "done"
            /\ UNCHANGED <<data_list, futures, hist>>
    /\ UNCHANGED <<cacheVars, fetchVars, metaVars, sampleVars, call, gdf, images_downloaded,
                   image_list, files>>

\* Lines 209-222: the loop test, the sampling of a round, the exit when no
\* point was generated, and the submission of the points to the pool.
Round ==
    /\ dpc = "round"
    /\ IF images_downloaded < call.total_images_to_download * 4        \* 209
       THEN LET n2d == call.total_images_to_download - (images_downloaded \div 4) IN
            \E pick \in SampleDraws(gdf, n2d) :
              LET points == generate_ll(gdf, n2d, pick) IN             \* 211
              /\ data_list' = points
              /\ hist' = [hist EXCEPT
                            !.round = NextRound(@),
                            !.exhausted = (points = << >>),
                            !.n2d = n2d,
                            !.dispatched = @ \cup Range(points),
                            !.processed = 0]
              /\ IF points = << >>                                      \* 213-215
                 THEN futures' = << >> /\ dpc' = "done"
                 ELSE /\ futures' = [i \in 1..Len(points) |->           \* 219-222
                                       Future("pending", FALSE, << >>, 0)]
                      /\ dpc' = "collect"
       ELSE /\ dpc' = "done"                                            \* 238
            /\ UNCHANGED <<data_list, futures, hist>>
    /\ UNCHANGED <<cacheVars, fetchVars, metaVars, sampleVars, call, gdf, images_downloaded,
                   image_list, files>>

\* A variant of WorkerFinish in which the thread adds its flag to the tally.
WorkerFinishTallies(i) ==
    /\ dpc = "collect"
    /\ i \in Running
    /\ \E resps \in ProviderRuns(data_list[i][1], data_list[i][2]) :
         LET r == GetStreetLL(data_list[i][1], data_list[i][2], data_list[i][3], resps) IN
         /\ futures' = [futures EXCEPT ![i] = Future("done", r.some, r.meta, r.flag)]
         /\ files' = files \cup r.files
         /\ hist' = [hist EXCEPT !.allOk = @ /\ r.flag = 1]
         /\ images_downloaded' = images_downloaded + r.flag
    /\ UNCHANGED <<cacheVars, fetchVars, metaVars, sampleVars, call, dpc, gdf,
                   data_list, image_list>>

\* A thread of the pool returns from its GetStreetLL call (line 220) and the
\* files of the call are in save_dir; or the call raises, and the future
\* holds the exception.
WorkerFinish(i) ==
    /\ dpc = "collect"
    /\ i \in Running
    /\ \/ \E resps \in ProviderRuns(data_list[i][1], data_list[i][2]) :
            LET r == GetStreetLL(data_list[i][1], data_list[i][2],
                                 data_list[i][3], resps) IN
            /\ futures' = [futures EXCEPT
                             ![i] = Future("done", r.some, r.meta, r.flag)]
            /\ files' = files \cup r.files
            /\ hist' = [hist EXCEPT !.allOk = @ /\ r.flag = 1]
       \/ /\ futures' = [futures EXCEPT ![i] = Future("raised", FALSE, << >>, 0)]
          /\ files' = files
          /\ hist' = [hist EXCEPT !.allOk = FALSE]
    /\ UNCHANGED <<cacheVars, fetchVars, metaVars, sampleVars, call, dpc, gdf,
                   images_downloaded, data_list, image_list>>

\* The futures as_completed can yield: those whose call has ended.
Completed == {i \in 1..Len(futures) : futures[i].state \in {"done", "raised"}}

\* What processing future i adds to the tally and to the ledger: its flag
\* and its metadata (lines 229-234), nothing when result() raises (235-236).
TallyOf(i) == IF futures[i].state = "done" THEN futures[i].flag ELSE 0
LedgerOf(i) ==
    IF futures[i].state = "done" /\ futures[i].some
    THEN SetToBag({futures[i].meta}) ELSE EmptyBag

\* A variant of Collect that leaves the loop with the other finished
\* futures unprocessed.
CollectDropsOthers(i) ==
    /\ dpc = "collect"
    /\ i \in Completed
    /\ images_downloaded' = images_downloaded + TallyOf(i)
    /\ image_list' = image_list (+) LedgerOf(i)
    /\ futures' = [j \in 1..Len(futures) |->
                     IF j \in Completed
                     THEN [futures[j] EXCEPT !.state = "collected"]
                     ELSE futures[j]]
    /\ hist' = [hist EXCEPT
                  !.processed = @ + 1,
                  !.okProcessed = @ + (IF futures[i].state = "done" /\ futures[i].flag = 1
                                       THEN 1 ELSE 0),
                  !.appended = @ + BagCardinality(LedgerOf(i))]
    /\ UNCHANGED <<cacheVars, fetchVars, metaVars, sampleVars, call, dpc, gdf, data_list,
                   files>>

\* A variant of Collect in which the exception of a future ends the call.
CollectAbortsOnRaise(i) ==
    /\ dpc = "collect"
    /\ i \in Completed
    /\ images_downloaded' = images_downloaded + TallyOf(i)
    /\ image_list' = image_list (+) LedgerOf(i)
    /\ futures' = [futures EXCEPT ![i].state = "collected"]
    /\ dpc' = IF futures[i].state = "raised" THEN "failed" ELSE dpc
    /\ hist' = [hist EXCEPT
                  !.processed = @ + 1,
                  !.okProcessed = @ + (IF futures[i].state = "done" /\ futures[i].flag = 1
                                       THEN 1 ELSE 0),
                  !.appended = @ + BagCardinality(LedgerOf(i))]
    /\ UNCHANGED <<cacheVars, fetchVars, metaVars, sampleVars, call, gdf, data_list,
                   files>>

\* Lines 225-236: as_completed yields a finished future; its result is added
\* to the tally and its metadata appended to the ledger, or its exception is
\* printed.
Collect(i) ==
    /\ dpc = "collect"
    /\ i \in Completed
    /\ images_downloaded' = images_downloaded + TallyOf(i)              \* 231
    /\ image_list' = image_list (+) LedgerOf(i)                         \* 233-234
    /\ futures' = [futures EXCEPT ![i].state = "collected"]
    /\ hist' = [hist EXCEPT
                  !.processed = @ + 1,
                  !.okProcessed = @ + (IF futures[i].state = "done" /\ futures[i].flag = 1
                                       THEN 1 ELSE 0),
                  !.appended = @ + BagCardinality(LedgerOf(i))]
    /\ UNCHANGED <<cacheVars, fetchVars, metaVars, sampleVars, call, dpc, gdf, data_list,
                   files>>

\* A variant of EndRound that does not wait for the pool.
EndRoundNoWait ==
    /\ dpc = "collect"
    /\ dpc' = "round"
    /\ UNCHANGED <<cacheVars, fetchVars, metaVars, sampleVars, call, gdf, images_downloaded,
                   data_list, futures, image_list, files, hist>>

\* as_completed is exhausted and the with block of line 218 is left.
EndRound ==
    /\ dpc = "collect"
    /\ \A i \in 1..Len(futures) : futures[i].state = "collected"
    /\ dpc' = "round"
    /\ UNCHANGED <<cacheVars, fetchVars, metaVars, sampleVars, call, gdf, images_downloaded,
                   data_list, futures, image_list, files, hist>>

Init ==
    /\ InitCache
    /\ fetchIn = NoFetchIn /\ fetchOut = NoFetchOut
    /\ metaIn = NoMetaIn /\ metaOut = NoMetaOut
    /\ SampleIdle
    /\ call \in [country : DriverCountries,
                 total_images_to_download : 1..MaxTarget,
                 num_workers : 1..MaxWorkers]
    /\ dpc = "resolve"
    /\ gdf = << >>
    /\ images_downloaded = 0                                           \* 206
    /\ data_list = << >> /\ futures = << >>
    /\ image_list = EmptyBag /\ files = {}
    /\ hist = NoHist

Next ==
    \/ AcquireResolve
    \/ Round
    \/ \E i \in 1..(4 * MaxTarget) : WorkerFinish(i)
    \/ \E i \in 1..(4 * MaxTarget) : Collect(i)
    \/ EndRound

Spec == Init /\ [][Next]_vars

\* The calls made with a pool of one thread.
InitFair == Init /\ call.num_workers = 1

\* Every thread that can run does run, and every call returns.
FairSpec ==
    /\ InitFair /\ [][Next]_vars
    /\ WF_vars(AcquireResolve)
    /\ WF_vars(Round)
    /\ WF_vars(\E i \in 1..(4 * MaxTarget) : WorkerFinish(i))
    /\ WF_vars(\E i \in 1..(4 * MaxTarget) : Collect(i))
    /\ WF_vars(EndRound)

(***************************************************************************)
(* Claims about the geometry cache (checked under SpecCache).              *)
(***************************************************************************)
RegionOf(country) ==
    LET i == FindRegion(country, 1) IN IF i = 0 THEN None ELSE RegionOrder[i]

\* C9 (as stated): over any sequence of resolve calls, read_dataframe is
\* invoked at most once per region.
C9_ReadInvokedAtMostOnce == \A r \in Regions : readCalls[r] <= 1

\* C9 (amended): read_dataframe returns at most once per region; a resolve
\* of any country whose region is already cached returns the cached set
\* without reading, and a read that returns leaves the set cached under the
\* region, so only failed reads are ever repeated.
C9_LoadedOncePerRegion ==
    /\ \A r \in Regions : readOks[r] <= 1
    /\ lastResolve.read # None => lastResolve.read \notin lastResolve.before
    /\ lastResolve.country # None /\ RegionOf(lastResolve.country) \in lastResolve.before
         => /\ lastResolve.kind = "return"
            /\ lastResolve.read = None
            /\ lastResolve.value = gdf_cache[RegionOf(lastResolve.country)]
    /\ lastResolve.read # None /\ lastResolve.kind = "return"
         => /\ lastResolve.read = RegionOf(lastResolve.country)
            /\ lastResolve.read \in DOMAIN gdf_cache
            /\ gdf_cache[lastResolve.read] = lastResolve.value

\* C9 witness: Spain is resolved from the cache entry that a resolve of
\* another country of Region 1 made.
C9_Witness ==
    /\ lastResolve.country = "Spain"
    /\ "Region 1" \in lastResolve.before
    /\ lastResolve.read = None
    /\ lastResolve.kind = "return"
    /\ readOks["Region 1"] = 1

\* C10: a resolve that fails leaves the cache unchanged; an unknown country
\* fails without a read; a region enters the cache only in a call whose read
\* of that region returned.
C10_FailedResolveKeepsCache ==
    [][ /\ lastResolve'.kind = "raise" => gdf_cache' = gdf_cache
        /\ RegionOf(lastResolve'.country) = None
             => /\ lastResolve'.kind = "raise"
                /\ lastResolve'.err = "UnknownCountry"
                /\ readCalls' = readCalls
        /\ lastResolve'.kind = "raise" /\ lastResolve'.read # None
             => /\ lastResolve'.err = "GeometrySourceUnavailable"
                /\ lastResolve'.read \notin DOMAIN gdf_cache'
        /\ \A r \in Regions :
             r \in DOMAIN gdf_cache' /\ r \notin DOMAIN gdf_cache
               => /\ lastResolve'.kind = "return"
                  /\ lastResolve'.read = r
                  /\ readOks'[r] = readOks[r] + 1
      ]_vars

\* C10 witness: a read of Region 1 failed while another region was cached,
\* and Region 1 has no entry.
C10_Witness ==
    /\ lastResolve.kind = "raise"
    /\ lastResolve.err = "GeometrySourceUnavailable"
    /\ lastResolve.read = "Region 1"
    /\ "Region 1" \notin DOMAIN gdf_cache
    /\ DOMAIN gdf_cache # {}

(***************************************************************************)
(* Claims about MetaParse (SpecMeta) and GetStreetLL (SpecFetch).          *)
(***************************************************************************)
\* The answer is a JSON object with status OK, a location and a pano_id key.
OkAnswer(m) ==
    /\ m.transport = "ok"
    /\ {"status", "pano_id", "location"} \subseteq DOMAIN m.json
    /\ m.json["status"] = "OK"

\* ... whose panorama id is moreover a non-empty string.
UsableAnswer(m) ==
    /\ OkAnswer(m)
    /\ m.json["pano_id"] # ""
    /\ m.json["pano_id"] # None

\* Attempt i ends without returning: no usable metadata, or an HTTPError.
Continues(resp) == ~UsableAnswer(resp.meta) \/ resp.dl = "http"

\* The loop of the call gets to attempt i.
Reached(i) == \A j \in 1..(i - 1) : Continues(fetchIn.resps[j])

\* C4 (as stated): a fetch whose first metadata answer is OK with a panorama
\* id returns success, having written exactly the file named after the
\* validated location, and returns the validated latitude and longitude.
C4_FirstOkMeansSuccess ==
    fetchOut.done /\ UsableAnswer(fetchIn.resps[1].meta)
      => LET loc == fetchIn.resps[1].meta.json["location"] IN
         /\ fetchOut.flag = 1
         /\ fetchOut.some
         /\ fetchOut.files = {Filename(loc.lat, loc.lng, fetchIn.Head)}
         /\ fetchOut.meta[3] = loc.lat
         /\ fetchOut.meta[4] = loc.lng

\* C4 (amended): the same, provided the download of that first attempt
\* succeeds; the call then makes one metadata query and one download.
C4_FirstOkAndDownloadedMeansSuccess ==
    fetchOut.done /\ UsableAnswer(fetchIn.resps[1].meta)
                  /\ fetchIn.resps[1].dl = "ok"
      => LET loc == fetchIn.resps[1].meta.json["location"]
             filename == Filename(loc.lat, loc.lng, fetchIn.Head) IN
         /\ fetchOut.flag = 1
         /\ fetchOut.some
         /\ fetchOut.files = {filename}
         /\ fetchOut.meta[2] = fetchIn.resps[1].meta.json["pano_id"]
         /\ fetchOut.meta[3] = loc.lat
         /\ fetchOut.meta[4] = loc.lng
         /\ fetchOut.meta[5] = filename
         /\ fetchOut.metaQueries = 1
         /\ fetchOut.downloads = 1

\* C4 witness: a successful first attempt whose validated location differs
\* from the requested one.
C4_Witness ==
    /\ fetchOut.done
    /\ UsableAnswer(fetchIn.resps[1].meta)
    /\ fetchIn.resps[1].dl = "ok"
    /\ fetchOut.flag = 1
    /\ fetchIn.resps[1].meta.json["location"].lat # fetchIn.Lat
    /\ fetchIn.resps[1].meta.json["location"].lng # fetchIn.Lon

\* C5: when MetaParse returns None in every attempt, the fetch makes exactly
\* `retries` metadata queries and no download, and returns (None, 0) with no
\* file written.
C5_AlwaysAbsentFails ==
    fetchOut.done /\ (\A i \in 1..retries : ~MetaParse(fetchIn.resps[i].meta).some)
      => /\ fetchOut.metaQueries = retries
         /\ fetchOut.downloads = 0
         /\ ~fetchOut.some
         /\ fetchOut.flag = 0
         /\ fetchOut.files = {}

\* C5 witness: a finished fetch whose three metadata queries were answered
\* by a transport failure, by a non-OK status and by a transport failure.
C5_Witness ==
    /\ fetchOut.done
    /\ fetchIn.resps[1].meta.transport = "neterr"
    /\ fetchIn.resps[2].meta.transport = "ok"
    /\ ~MetaParse(fetchIn.resps[2].meta).some
    /\ fetchIn.resps[3].meta.transport = "neterr"
    /\ fetchOut.metaQueries = retries

\* C6: a fetch makes at most `retries` attempts, each one metadata query and
\* at most one download; an HTTPError of the download in an attempt before
\* the last is followed by another attempt; and a fetch none of whose
\* attempts downloads the image returns (None, 0).
C6_BoundedRetries ==
    fetchOut.done
      => /\ fetchOut.attempts \in 1..retries
         /\ fetchOut.metaQueries = fetchOut.attempts
         /\ fetchOut.downloads <= fetchOut.metaQueries
         /\ fetchOut.downloads =
              Cardinality({i \in 1..fetchOut.attempts :
                              UsableAnswer(fetchIn.resps[i].meta)})
         /\ \A i \in 1..(retries - 1) :
              Reached(i) /\ UsableAnswer(fetchIn.resps[i].meta)
                         /\ fetchIn.resps[i].dl = "http"
                => fetchOut.attempts >= i + 1
         /\ fetchOut.sleeps =
              Cardinality({i \in 1..retries :
                              Reached(i) /\ UsableAnswer(fetchIn.resps[i].meta)
                                         /\ fetchIn.resps[i].dl = "http"})
         /\ (~\E i \in 1..retries :
                Reached(i) /\ UsableAnswer(fetchIn.resps[i].meta)
                           /\ fetchIn.resps[i].dl = "ok")
              => ~fetchOut.some /\ fetchOut.flag = 0
         /\ fetchOut.flag = 1 <=> fetchOut.some

\* C6 witness: every one of the three downloads raised an HTTPError and the
\* fetch returned (None, 0) after three attempts.
C6_Witness ==
    /\ fetchOut.done
    /\ \A i \in 1..retries : /\ UsableAnswer(fetchIn.resps[i].meta)
                             /\ fetchIn.resps[i].dl = "http"
    /\ fetchOut.attempts = retries
    /\ fetchOut.downloads = retries
    /\ fetchOut.flag = 0

\* C7: an exception other than HTTPError raised by the download of attempt i
\* makes the fetch return (None, 0) at once: attempt i is its last metadata
\* query and its last download.
C7_OtherExceptionAborts ==
    fetchOut.done
      => \A i \in 1..retries :
            Reached(i) /\ UsableAnswer(fetchIn.resps[i].meta)
                       /\ fetchIn.resps[i].dl \in {"exc", "short"}
              => /\ ~fetchOut.some
                 /\ fetchOut.flag = 0
                 /\ fetchOut.attempts = i
                 /\ fetchOut.metaQueries = i
                 /\ fetchOut.downloads =
                      Cardinality({j \in 1..i : UsableAnswer(fetchIn.resps[j].meta)})

\* C7 witness: the first download raised a non-HTTP exception while the
\* provider would have served the later attempts.
C7_Witness ==
    /\ fetchOut.done
    /\ UsableAnswer(fetchIn.resps[1].meta)
    /\ fetchIn.resps[1].dl = "exc"
    /\ \A i \in 2..retries : /\ UsableAnswer(fetchIn.resps[i].meta)
                             /\ fetchIn.resps[i].dl = "ok"
    /\ fetchOut.attempts = 1
    /\ fetchOut.flag = 0

\* C8 (as stated): MetaParse returns metadata only for an answer with status
\* OK and a non-empty panorama id, returns None for every other answer, and
\* never raises.
C8_MetadataOnlyWithPanoId ==
    metaOut.done
      => /\ ~metaOut.result.raised
         /\ metaOut.result.some <=> UsableAnswer(metaIn)

\* C8 (amended): MetaParse returns metadata exactly for an answer that is a
\* JSON object with status OK, a location and a pano_id key, whatever the
\* panorama id is (an empty or null one is returned as it is, and rejected
\* by GetStreetLL); every other answer and every transport failure yields
\* None; MetaParse never raises.
C8_MetadataIffOkAnswer ==
    metaOut.done
      => /\ ~metaOut.result.raised
         /\ metaOut.result.some <=> OkAnswer(metaIn)
         /\ metaOut.result.some
              => /\ metaOut.result.value[2] = metaIn.json["pano_id"]
                 /\ metaOut.result.value[3] = metaIn.json["location"].lat
                 /\ metaOut.result.value[4] = metaIn.json["location"].lng
                 /\ metaOut.result.value[1] =
                      (IF "date" \in DOMAIN metaIn.json THEN metaIn.json["date"]
                       ELSE None)

\* C8 witness: MetaParse has returned metadata that carries an empty
\* panorama id.
C8_Witness ==
    /\ metaOut.done
    /\ metaOut.result.some
    /\ metaOut.result.value[2] = ""

(***************************************************************************)
(* Claims about download_images_from_country (Spec, FairSpec).             *)
(***************************************************************************)
Usable(road) == road.geom_type \in {"LineString", "MultiLineString"}
UsableRoads(g) == Cardinality({i \in 1..Len(g) : Usable(g[i])})
Terminal == dpc \in {"done", "failed"}

\* C1: when every fetch succeeds and the geometry holds at least
\* total_images_to_download usable roads, the call ends with a tally of
\* exactly 4 * total_images_to_download.
C1_AllSucceedReachesQuota ==
    dpc = "done" /\ hist.allOk
                 /\ UsableRoads(gdf) >= call.total_images_to_download
      => images_downloaded = 4 * call.total_images_to_download

\* C2: every call sooner or later ends (quota reached, no point generated,
\* or the loader's exception), whatever the outcomes of its fetches.
C2_Terminates == <>Terminal

\* C3: on an empty geometry the call ends in its first round, with no point
\* generated: tally 0, no future submitted, no file, no ledger entry, and the
\* only step it takes from the head of the loop is the exit.
C3_EmptyGeometryExhausts ==
    /\ [](dpc \notin {"resolve", "failed"} /\ gdf = << >>
            => /\ images_downloaded = 0
               /\ data_list = << >>
               /\ futures = << >>
               /\ files = {}
               /\ image_list = EmptyBag
               /\ dpc \in {"round", "done"}
               /\ dpc = "round" => hist.round = "none" /\ ENABLED Round
               /\ dpc = "done" => hist.round = "first" /\ hist.exhausted)
    /\ [][dpc = "round" /\ gdf = << >> => dpc' = "done" /\ hist'.exhausted]_vars

\* C3 witness: the call for Nauru, whose region has no road, has ended for
\* the largest target explored.
C3_Witness ==
    /\ dpc = "done"
    /\ lastResolve.kind = "return"
    /\ gdf = << >>
    /\ hist.exhausted
    /\ images_downloaded = 0
    /\ call.total_images_to_download = MaxTarget

(***************************************************************************)
(* Properties of generate_ll, checked under SpecSample.                    *)
(***************************************************************************)
\* The roads that yield points: single and multi polylines.
IsPolyline(road) == road.geom_type \in {"LineString", "MultiLineString"}

\* The first vertex of a polyline, as <<x, y>> = <<lon, lat>>.
FirstVertex(road) == road.geoms[1][1]

\* The four points expected of one road.
ExpectedPoints(road) ==
    IF IsPolyline(road)
    THEN <<<<FirstVertex(road)[2], FirstVertex(road)[1], 2>>,
           <<FirstVertex(road)[2], FirstVertex(road)[1], 92>>,
           <<FirstVertex(road)[2], FirstVertex(road)[1], 182>>,
           <<FirstVertex(road)[2], FirstVertex(road)[1], 272>>>>
    ELSE << >>

RECURSIVE ExpectedOf(_, _, _)
\* The points expected of the rows rows[i..] of frame g.
ExpectedOf(g, rows, i) ==
    IF i > Len(rows) THEN << >>
    ELSE ExpectedPoints(g[rows[i]]) \o ExpectedOf(g, rows, i + 1)

Min(a, b) == IF a <= b THEN a ELSE b

\* Each row of the frame is used exactly once.
UsesAllRowsOnce(g, rows) ==
    /\ Len(rows) = Len(g)
    /\ \A r \in 1..Len(g) : Cardinality({i \in 1..Len(rows) : rows[i] = r}) = 1

\* C11: when the point budget exceeds the number of roads of the frame,
\* generate_ll uses every road exactly once, so its output holds the four
\* heading points of every usable road.
C11_LargeBudgetUsesAllRoads ==
    sampleOut.done /\ sampleIn.n2d > Len(sampleIn.g)
      => /\ UsesAllRowsOnce(sampleIn.g, sampleOut.rows)
         /\ Len(sampleOut.points)
              = 4 * Cardinality({r \in 1..Len(sampleIn.g) : IsPolyline(sampleIn.g[r])})

\* C12: generate_ll walks min(n2d \div 2, rows of the frame) rows, none
\* twice; its output is, row by row, the four points of headings 2, 92, 182,
\* 272 at the first vertex of each polyline and nothing for any other
\* geometry; so its length is a multiple of 4 and at most 4 * (n2d \div 2).
C12_FourPointsPerSelectedRoad ==
    sampleOut.done
      => LET g == sampleIn.g
             rows == sampleOut.rows
             points == sampleOut.points IN
         /\ Len(rows) = Min(sampleIn.n2d \div 2, Len(g))
         /\ \A i \in 1..Len(rows) : rows[i] \in 1..Len(g)
         /\ \A i, j \in 1..Len(rows) : i # j => rows[i] # rows[j]
         /\ points = ExpectedOf(g, rows, 1)
         /\ Len(points)
              = 4 * Cardinality({i \in 1..Len(rows) : IsPolyline(g[rows[i]])})
         /\ Len(points) % 4 = 0
         /\ Len(points) <= 4 * (sampleIn.n2d \div 2)

\* C12 witness: a call that sampled two of three rows, one a multi polyline
\* and one that is no polyline, and returned the four points of the first.
C12_Witness ==
    /\ sampleOut.done
    /\ Len(sampleIn.g) = 3
    /\ Len(sampleOut.rows) = 2
    /\ sampleIn.g[sampleOut.rows[1]].geom_type = "MultiLineString"
    /\ ~IsPolyline(sampleIn.g[sampleOut.rows[2]])
    /\ Len(sampleOut.points) = 4

(***************************************************************************)
(* Properties of the rounds of download_images_from_country, checked under *)
(* Spec.                                                                   *)
(***************************************************************************)
Target == call.total_images_to_download

\* The futures of the round whose result the loop of line 225 has processed.
Collected == {i \in 1..Len(futures) : futures[i].state = "collected"}

\* A step of the head of the loop that samples a round.
RoundStarts == dpc = "round" /\ dpc' # "round" /\ images_downloaded < 4 * Target

\* A step in which future i goes from finished to processed and no other
\* future changes.
Processes(i) ==
    /\ Len(futures') = Len(futures)
    /\ futures[i].state \in {"done", "raised"}
    /\ futures'[i].state = "collected"
    /\ \A j \in 1..Len(futures) : j # i => futures'[j] = futures[j]

C14_FilesEqualTally ==
    dpc = "done" => Cardinality(files) = images_downloaded

\* A future whose fetch failed: its call returned flag 0 or raised.
FailedFuture(i) ==
    \/ futures[i].state = "raised"
    \/ futures[i].state = "done" /\ futures[i].flag = 0

\* C15: processing a failed fetch leaves the tally and the ledger as they
\* are and the call inside its round; no step of a round ends the call; a
\* round ends with every point processed, and the loop then goes on.
C15_PointFailureAbsorbed ==
    /\ [][\A i \in 1..Len(futures) :
             FailedFuture(i) /\ Processes(i)
               => /\ images_downloaded' = images_downloaded
                  /\ image_list' = image_list
                  /\ dpc' = "collect"]_vars
    /\ [][dpc = "collect" => dpc' \in {"collect", "round"}]_vars
    /\ [][dpc = "collect" /\ dpc' = "round" => hist.processed = Len(data_list)]_vars
    /\ [](dpc = "collect" /\ Collected = 1..Len(futures) => ENABLED EndRound)
    /\ [](dpc = "round" => ENABLED Round)

\* C15 witness: in one round a fetch that returned failure has been
\* processed, a fetch that succeeded has been processed after it, and a
\* fetch that raised waits to be processed.
C15_Witness ==
    /\ dpc = "collect"
    /\ Len(futures) = 4
    /\ futures[1].state = "collected" /\ futures[1].flag = 0
    /\ futures[2].state = "raised"
    /\ futures[3].state = "collected" /\ futures[3].flag = 1
    /\ images_downloaded = 1

\* C16: the tally never exceeds 4 * T; the budget of each round is
\* T - floor(tally / 4), with the tally at the start of the round; no round
\* dispatches more than 4 * T fetches.
C16_TallyAndBudgetBounded ==
    /\ [](images_downloaded <= 4 * Target)
    /\ [](Len(futures) <= 4 * Target /\ Len(data_list) <= 4 * Target)
    /\ [][RoundStarts
            => /\ hist'.n2d = Target - (images_downloaded \div 4)
               /\ Len(data_list') <= 4 * Target]_vars

\* C16 witness: a second round has been dispatched with budget 2 after a
\* first round left the tally at 3.
C16_Witness ==
    /\ dpc = "collect"
    /\ hist.round = "later"
    /\ hist.processed = 0
    /\ images_downloaded = 3
    /\ hist.n2d = 2
    /\ Len(futures) = 4

\* C17: no round is handed a point that an earlier round of the call
\* dispatched; and sampling an empty frame yields no point.
C17_NoPointDispatchedTwice ==
    /\ [][RoundStarts => \A p \in Range(data_list') : p \notin hist.dispatched]_vars
    /\ [][RoundStarts /\ gdf = << >> => data_list' = << >>]_vars

\* C18: the head of the loop is reached only with every future of the
\* round processed, and a fetch is submitted only when no future of the
\* round before is left pending or unprocessed.
C18_RoundsNeverOverlap ==
    /\ [](dpc = "round" => Collected = 1..Len(futures)
                            /\ hist.processed = Len(futures))
    /\ [][RoundStarts => Collected = 1..Len(futures)]_vars
    /\ [][(\E i \in 1..Len(futures') :
               /\ futures'[i].state = "pending"
               /\ i > Len(futures) \/ futures[i].state # "pending")
            => Collected = 1..Len(futures)]_vars

\* C18 witness: the second round of a call has been dispatched and none of
\* its fetches has returned.
C18_Witness ==
    /\ dpc = "collect"
    /\ hist.round = "later"
    /\ Len(futures) = 4
    /\ \A i \in 1..Len(futures) : futures[i].state = "pending"
    /\ call.num_workers = MaxWorkers

\* C19: the tally and the ledger change only in a step that processes one
\* result, by the flag and the metadata of that result; a thread that ends
\* its fetch changes neither; so the tally is the number of processed
\* results of flag 1 and the number of ledger entries.
C19_OnlyDriverWritesTally ==
    /\ [](images_downloaded = hist.okProcessed)
    /\ [](BagCardinality(image_list) = hist.appended)
    /\ [](images_downloaded = BagCardinality(image_list))
    /\ [][images_downloaded' # images_downloaded \/ image_list' # image_list
            => \E i \in 1..Len(futures) :
                 /\ Processes(i)
                 /\ futures[i].state = "done" /\ futures[i].flag = 1
                 /\ images_downloaded' = images_downloaded + 1
                 /\ image_list' = image_list (+) SetToBag({futures[i].meta})]_vars
    /\ [][(\E i \in 1..Len(futures) :
               /\ Len(futures') = Len(futures)
               /\ futures[i].state = "pending"
               /\ futures'[i].state \in {"done", "raised"})
            => images_downloaded' = images_downloaded /\ image_list' = image_list]_vars

\* C19 witness: with two threads, one success has been processed while
\* another fetch that succeeded has returned and is not yet processed.
C19_Witness ==
    /\ dpc = "collect"
    /\ call.num_workers = MaxWorkers
    /\ images_downloaded = 1
    /\ \E i, j \in 1..Len(futures) :
         /\ futures[i].state = "collected" /\ futures[i].flag = 1
         /\ futures[j].state = "done" /\ futures[j].flag = 1

====
